---- MODULE Spec2Model ----
(***************************************************************************)
(* State-machine model of the Jonker-Volgenant assignment solver `lap`     *)
(* (src/src/lap-ts/lap.ts) and of the reporting step that consumes its     *)
(* result (src/src/bloc/score-assign.ts).                                  *)
(*                                                                         *)
(* Numbers.  The program computes in IEEE 754 binary64, and so does the    *)
(* model: BIG, epsilon, u, v, d, min, umin, usubmin, h and lapcost hold    *)
(* binary64 values, and every addition, subtraction, multiplication and    *)
(* division of lap is the correctly rounded one.  The entries of           *)
(* costMatrix are integers, converted when lap reads them.                 *)
(*                                                                         *)
(* NaN and FNaN stand for the IEEE not-a-number and for JavaScript's       *)
(* `undefined` (an array hole or an out-of-range read), which behaves as   *)
(* NaN in every arithmetic operation and comparison lap applies to it.     *)
(***************************************************************************)
EXTENDS Integers, Sequences, FiniteSets, TLC

\* Bounds of the explored inputs.
MaxDim == 3
MaxWeight == 2

----------------------------------------------------------------------------
\* IEEE 754 binary64 arithmetic.
\*
\* A finite number is <<sign, exp, hi, lo>>: sign in {-1, 0, 1}, and for a
\* non-zero number the 53-bit significand hi * 2^28 + lo, normalised to
\* [2^52, 2^53), so that the value is sign * (hi * 2^28 + lo) * 2^exp; zero is
\* <<0, 0, 0, 0>>.  Every operation computes the exact result and rounds it to
\* nearest, ties to even.  The two halves keep every intermediate number
\* below 2^31.  lap's numbers are far from the overflow and underflow
\* thresholds, so exp is unbounded; it produces no negative zero.

\* undefined, or NaN, where the program holds an integer
NaN == 0 - 2147483647
\* the binary64 NaN
FNaN == <<2, 0, 0, 0>>
FZero == <<0, 0, 0, 0>>

Abs(x) == IF x < 0 THEN 0 - x ELSE x

P12 == 4096
P13 == 8192
P14 == 16384
P24 == 16777216
P25 == 33554432
P27 == 134217728
P28 == 268435456

\* F(e), with e evaluated once, before F is applied
Bind(F(_), e) == CHOOSE r \in {F(x) : x \in {e}} : TRUE

\* a working significand is a pair <<h, l>> standing for h * 2^28 + l, l < 2^28

\* w / 2^n rounded down, n >= 0, with bit 0 set when a non-zero bit is lost
ShiftRightSticky(w, n) ==
  IF n = 0 THEN w
  ELSE IF n >= 57 THEN <<0, IF w = <<0, 0>> THEN 0 ELSE 1>>
  ELSE IF n >= 28
  THEN LET q == w[1] \div 2^(n - 28)
           lost == w[1] % 2^(n - 28) # 0 \/ w[2] # 0
       IN <<0, IF lost /\ q % 2 = 0 THEN q + 1 ELSE q>>
  ELSE LET q == (w[1] % 2^n) * 2^(28 - n) + w[2] \div 2^n
       IN <<w[1] \div 2^n, IF w[2] % 2^n # 0 /\ q % 2 = 0 THEN q + 1 ELSE q>>

\* w * 2^n, 0 <= n <= 28
ShiftLeft(w, n) == <<w[1] * 2^n + w[2] \div 2^(28 - n), (w[2] % 2^(28 - n)) * 2^n>>

AddW(x, y) == <<x[1] + y[1] + (x[2] + y[2]) \div P28, (x[2] + y[2]) % P28>>
SubW(x, y) ==
  IF x[2] < y[2] THEN <<x[1] - y[1] - 1, x[2] + P28 - y[2]>>
  ELSE <<x[1] - y[1], x[2] - y[2]>>

\* the significand of a with three more bits (guard, round, sticky)
Widen(a) == <<a[3] * 8 + a[4] \div P25, (a[4] % P25) * 8>>

\* the binary64 of sign s nearest to w * 2^e, for 2^55 <= w < 2^56: the lowest three
\* bits of w decide the rounding
Pack(s, e, w) ==
  LET mh == w[1] \div 8
      ml == (w[1] % 8) * P25 + w[2] \div 8
      g == w[2] % 8
  IN IF g < 4 \/ (g = 4 /\ ml % 2 = 0) THEN <<s, e + 3, mh, ml>>
     ELSE IF ml + 1 < P28 THEN <<s, e + 3, mh, ml + 1>>
     ELSE IF mh + 1 < P25 THEN <<s, e + 3, mh + 1, 0>>
     ELSE <<s, e + 4, P24, 0>>

RECURSIVE NormLeft(_, _, _)
\* Pack after the left shifts that bring 0 < w < 2^56 to [2^55, 2^56)
NormLeft(s, e, w) ==
  IF w[1] >= P27 THEN Pack(s, e, w)
  ELSE LET n == IF w[1] = 0 THEN 28 ELSE IF w[1] < P13 THEN 14
                ELSE IF w[1] < P24 THEN 3 ELSE 1
       IN Bind(LAMBDA x : NormLeft(s, e - n, x), ShiftLeft(w, n))

\* the binary64 of sign s nearest to w * 2^e, for w < 2^57 whose bit 0 is sticky
RoundW(s, e, w) ==
  IF w = <<0, 0>> THEN FZero
  ELSE IF w[1] >= P28 THEN Bind(LAMBDA x : Pack(s, e + 1, x), ShiftRightSticky(w, 1))
  ELSE Bind(LAMBDA x : NormLeft(s, e, x), w)

\* the integer n as a binary64 (exact); NaN or undefined as NaN
FromInt(n) ==
  Bind(LAMBDA x : IF x = NaN THEN FNaN
                  ELSE IF x = 0 THEN FZero
                  ELSE RoundW(IF x < 0 THEN 0 - 1 ELSE 1, 0 - 3,
                              <<Abs(x) \div P25, (Abs(x) % P25) * 8>>),
       n)

\* |a| < |b| for non-zero a, b
MagLess(a, b) ==
  \/ a[2] < b[2]
  \/ a[2] = b[2] /\ (a[3] < b[3] \/ (a[3] = b[3] /\ a[4] < b[4]))

\* a + b for non-zero a, b with |a| >= |b|
AddOrdered(a, b) ==
  IF a[2] = b[2] /\ a[3] = b[3] /\ a[4] = b[4] /\ a[1] # b[1] THEN FZero
  ELSE Bind(LAMBDA w : RoundW(a[1], a[2] - 3, w),
            IF a[1] = b[1] THEN AddW(Widen(a), ShiftRightSticky(Widen(b), a[2] - b[2]))
            ELSE SubW(Widen(a), ShiftRightSticky(Widen(b), a[2] - b[2])))

FAdd(a, b) ==
  IF a[1] = 2 \/ b[1] = 2 THEN FNaN
  ELSE IF b[1] = 0 THEN a
  ELSE IF a[1] = 0 THEN b
  ELSE IF MagLess(a, b) THEN AddOrdered(b, a)
  ELSE AddOrdered(a, b)

FNeg(a) == IF a[1] = 2 THEN a ELSE <<0 - a[1], a[2], a[3], a[4]>>

FLess(a, b) ==
  /\ a[1] # 2 /\ b[1] # 2
  /\ IF a[1] # b[1] THEN a[1] < b[1]
     ELSE IF a[1] = 1 THEN MagLess(a, b)
     ELSE IF a[1] = 0 - 1 THEN MagLess(b, a)
     ELSE FALSE

a \oplus b == CHOOSE r \in {FAdd(x, y) : x \in {a}, y \in {b}} : TRUE
a \ominus b == CHOOSE r \in {FAdd(x, FNeg(y)) : x \in {a}, y \in {b}} : TRUE
\* comparisons with NaN are false
a \prec b == \E x \in {a} : \E y \in {b} : FLess(x, y)
a \preceq b == \E x \in {a} : \E y \in {b} : x[1] # 2 /\ y[1] # 2 /\ ~FLess(y, x)
a \succeq b == \E x \in {a} : \E y \in {b} : x[1] # 2 /\ y[1] # 2 /\ ~FLess(x, y)
a \doteq b == \E x \in {a} : \E y \in {b} : x[1] # 2 /\ x = y

\* the limbs of the significand of a in base 2^14, least significant first
Limbs(a) == <<a[4] % P14, a[4] \div P14, a[3] % P14, a[3] \div P14>>

RECURSIVE BitLen(_)
\* the number of bits of n >= 0
BitLen(n) == IF n = 0 THEN 0 ELSE 1 + BitLen(n \div 2)

\* the products of the limbs m by c < 2^14 with their carries: the limbs of
\* m * c, least significant first
MulLimbs(m, c) ==
  LET p1 == m[1] * c
      p2 == m[2] * c + p1 \div P14
      p3 == m[3] * c + p2 \div P14
      p4 == m[4] * c + p3 \div P14
  IN <<p1 % P14, p2 % P14, p3 % P14, p4 % P14, p4 \div P14>>

\* the long division of m * 2^28 (limbs m) by 2^13 <= n < 2^14: the limbs of
\* the quotient, least significant first, and the remainder
DivLimbs(m, n) ==
  LET c4 == m[4] * P14 + m[3]
      c3 == (c4 % n) * P14 + m[2]
      c2 == (c3 % n) * P14 + m[1]
      c1 == (c2 % n) * P14
      c0 == (c1 % n) * P14
  IN <<c0 \div n, c1 \div n, c2 \div n, c3 \div n, c4 \div n, c0 % n>>

\* the working significand p / 2^11 of the limbs p of a product
ProductW(p) ==
  <<p[5] * 131072 + p[4] * 8 + p[3] \div 2048,
    (p[3] % 2048) * 131072 + p[2] * 8 + p[1] \div 2048
      + (IF p[1] % 2048 # 0 /\ (p[1] \div 2048) % 2 = 0 THEN 1 ELSE 0)>>

\* the working significand q / 2^12 of the limbs and the remainder q of a quotient
QuotientW(q) ==
  <<q[5] * 65536 + q[4] * 4 + q[3] \div P12,
    (q[3] % P12) * 65536 + q[2] * 4 + q[1] \div P12
      + (IF (q[1] % P12 # 0 \/ q[6] # 0) /\ (q[1] \div P12) % 2 = 0 THEN 1 ELSE 0)>>

\* c * a for an integer 0 < c < 2^14 (c times 2^t has 14 bits)
Times(c, a) ==
  Bind(LAMBDA x : IF x[1] = 2 THEN FNaN
                  ELSE IF x[1] = 0 THEN FZero
                  ELSE Bind(LAMBDA t : Bind(LAMBDA w : RoundW(x[1], x[2] + 11 - t, w),
                                            ProductW(MulLimbs(Limbs(x), c * 2^t))),
                            14 - BitLen(c)),
       a)

\* a / b for an integer 0 <= b < 2^14 (b times 2^t has 14 bits); the only
\* division by zero lap performs is 0/0 (dim = 0), which is NaN
Quot(a, b) ==
  Bind(LAMBDA x : IF x[1] = 2 \/ b = 0 THEN FNaN
                  ELSE IF x[1] = 0 THEN FZero
                  ELSE Bind(LAMBDA t : Bind(LAMBDA w : RoundW(x[1], x[2] + t - 16, w),
                                            QuotientW(DivLimbs(Limbs(x), b * 2^t))),
                            14 - BitLen(b)),
       a)

\* read of a JavaScript array or typed array: out of range gives undefined
Load(arr, idx) == IF idx \in DOMAIN arr THEN arr[idx] ELSE NaN
\* the same of an array of binary64 values
FLoad(arr, idx) == IF idx \in DOMAIN arr THEN arr[idx] ELSE FNaN
\* write to a plain Array: the array grows when idx is past its end
Store(arr, idx, val) == [x \in DOMAIN arr \cup {idx} |-> IF x = idx THEN val ELSE arr[x]]
\* write to an Int32Array / Float64Array: out of range is ignored
TStore(arr, idx, val) == IF idx \in DOMAIN arr THEN [arr EXCEPT ![idx] = val] ELSE arr

----------------------------------------------------------------------------
\* Inputs.

\* 0-based array from a tuple
Arr(t) == [x \in 0..(Len(t) - 1) |-> t[x + 1]]

\* 0-based matrix from a tuple of rows
Mat(rows) == [r \in 0..(Len(rows) - 1) |-> Arr(rows[r + 1])]

\* all integer vectors of length m with sum of absolute values <= w
RECURSIVE Vecs(_, _)
Vecs(m, w) ==
  IF m = 0 THEN {<<>>}
  ELSE UNION { {<<x>> \o rest : rest \in Vecs(m - 1, w - Abs(x))} : x \in (0 - w)..w }

SquareOf(n, vec) == [r \in 0..(n - 1) |-> [c \in 0..(n - 1) |-> vec[r * n + c + 1]]]

ExampleMatrix == Mat(<< <<1, 2, 3>>, <<4, 2, 1>>, <<2, 2, 2>> >>)

\* three equal rows: two rows bid for column 1 in steps of epsilon, about
\* 2500 times
PriceWarMatrix == Mat(<< <<2, 1, 1>>, <<2, 1, 1>>, <<2, 1, 1>> >>)

\* a matrix on which the rounding of epsilon = (8/3)/10000 decides the
\* comparison of line 219
RoundedMatrix == Mat(<< <<1, 1, 0>>, <<3, 1, 1>>, <<2, 1, 1>> >>)

\* a matrix of sum -1 (BIG and epsilon negative) with two equal rows: after
\* row 0 has taken column 2, column 0 stands at umin = BIG + epsilon for rows
\* 1 and 2, no other column is below BIG, and j2 keeps the value 0
StalemateMatrix == Mat(<< <<2, 3336, 0 - 3335>>, <<0, 0 - 1, 0 - 1>>, <<0, 0 - 1, 0 - 1>> >>)

\* calls the specification says are rejected: n <= 0, a matrix that is not
\* n x n, a non-finite entry
InvalidInputs ==
  { [n |-> 0, m |-> Mat(<< >>)],
    [n |-> 0 - 1, m |-> Mat(<< >>)],
    [n |-> 1, m |-> Mat(<< <<625, 0>>, <<0, 625>> >>)],
    [n |-> 2, m |-> Mat(<< <<0, 1250>> >>)],
    [n |-> 2, m |-> Mat(<< <<1250>>, <<0, 1250>> >>)],
    [n |-> 1, m |-> Mat(<< <<NaN>> >>)],
    [n |-> 2, m |-> Mat(<< <<NaN, 0>>, <<0, 0>> >>)],
    [n |-> 2, m |-> Mat(<< <<0, 0>>, <<1250, NaN>> >>)] }

IsSquare(n, m) == DOMAIN m = 0..(n - 1) /\ \A r \in DOMAIN m : DOMAIN m[r] = 0..(n - 1)
IsFinite(m) == \A r \in DOMAIN m : \A c \in DOMAIN m[r] : m[r][c] # NaN

----------------------------------------------------------------------------
VARIABLES
  dim, costMatrix,      \* the arguments of lap
  pc,                   \* position in lap
  BIG, epsilon,         \* sumUp's result
  colsol, rowsol, u, v, \* typed arrays of lap
  free, collist, matches, d, pred,
  numfree, prvnumfree, loopcnt,
  i, j, k, f, freerow, i0, j1, j2, imin,
  umin, usubmin, min, h,
  low, up, last, endofpath, unassignedfound,
  lapcost,
  assignments,          \* the Map returned by mapDriversAndAddrs
  ref                   \* result of an earlier call of lap, kept by the caller

vars == <<dim, costMatrix, pc, BIG, epsilon, colsol, rowsol, u, v,
          free, collist, matches, d, pred, numfree, prvnumfree, loopcnt,
          i, j, k, f, freerow, i0, j1, j2, imin, umin, usubmin, min, h,
          low, up, last, endofpath, unassignedfound, lapcost, assignments, ref>>

ValidInput == dim >= 1 /\ IsSquare(dim, costMatrix) /\ IsFinite(costMatrix)

\* costMatrix[r][c] as lap reads it
Cost(r, c) == FromInt(Load(costMatrix[r], c))

\* the variables of lap before its first statement
Fresh ==
  /\ pc = "start"
  /\ BIG = FNaN /\ epsilon = FNaN
  /\ colsol = << >> /\ rowsol = << >> /\ u = << >> /\ v = << >>
  /\ free = << >> /\ collist = << >> /\ matches = << >> /\ d = << >> /\ pred = << >>
  /\ numfree = 0 /\ prvnumfree = NaN /\ loopcnt = 0
  /\ i = NaN /\ j = NaN /\ k = NaN /\ f = NaN /\ freerow = NaN
  /\ i0 = NaN /\ j1 = NaN /\ j2 = 0 /\ imin = NaN
  /\ umin = FNaN /\ usubmin = FNaN /\ min = FNaN /\ h = FNaN
  /\ low = NaN /\ up = NaN /\ last = 0 /\ endofpath = NaN /\ unassignedfound = FALSE
  /\ lapcost = FZero
  /\ assignments = << >>

NoRef == [called |-> FALSE]

\* a call of lap: a square matrix of the family, the documented example, one
\* of the three matrices above, or a call the specification says is rejected
Init ==
  /\ \/ \E n \in 1..MaxDim : \E vec \in Vecs(n * n, MaxWeight) :
          dim = n /\ costMatrix = SquareOf(n, vec)
     \/ dim = 3 /\ costMatrix \in {ExampleMatrix, PriceWarMatrix, RoundedMatrix, StalemateMatrix}
     \/ \E inp \in InvalidInputs : dim = inp.n /\ costMatrix = inp.m
  /\ Fresh
  /\ ref = NoRef

----------------------------------------------------------------------------
\* sumUp, lines 66-77

RECURSIVE SumCells(_, _)
\* the double loop of lines 71-75 over the cells x = r * dim + c, x.., added
\* to acc; one NaN (or undefined) cell makes the sum NaN
SumCells(x, acc) ==
  IF x >= dim * dim THEN acc
  ELSE SumCells(x + 1, acc \oplus Cost(x \div dim, x % dim))

sum == SumCells(0, FZero)

sumUp == <<Times(10000, Quot(sum, dim)), Quot(Quot(sum, dim), 10000)>>

\* new Int32Array(n), new Float64Array(n), new Array(n)
Zeros(n) == [x \in 0..(n - 1) |-> 0]
FZeros(n) == [x \in 0..(n - 1) |-> FZero]
Holes(n) == [x \in 0..(n - 1) |-> NaN]
FHoles(n) == [x \in 0..(n - 1) |-> FNaN]

\* lines 90-115: scale estimation and allocation.  costMatrix[r] of a missing
\* row is undefined and indexing it throws a TypeError (line 73); a negative
\* length makes `new Int32Array(dim)` throw a RangeError (line 91).
Start ==
  /\ pc = "start"
  /\ IF dim < 0 \/ \E r \in 0..(dim - 1) : r \notin DOMAIN costMatrix
     THEN /\ pc' = "thrown"
          /\ UNCHANGED <<BIG, epsilon, colsol, rowsol, u, v, free, collist, matches, d, pred, j>>
     ELSE /\ pc' = "colred"
          /\ BIG' = sumUp[1]
          /\ epsilon' = sumUp[2]
          /\ colsol' = Zeros(dim) /\ rowsol' = Zeros(dim)
          /\ u' = FZeros(dim) /\ v' = FZeros(dim)
          /\ free' = Holes(dim) /\ collist' = Holes(dim)
          /\ matches' = Zeros(dim)
          /\ d' = FHoles(dim) /\ pred' = Holes(dim)
          /\ j' = dim - 1
  /\ UNCHANGED <<h, ref, dim, costMatrix, numfree, prvnumfree, loopcnt, i, k, f, freerow,
                 i0, j1, j2, imin, umin, usubmin, min, low, up, last, endofpath,
                 unassignedfound, lapcost, assignments>>

----------------------------------------------------------------------------
\* COLUMN REDUCTION, lines 119-144

RECURSIVE ColMinFlipped(_, _, _, _)
\* ColMin with the comparison of line 125 turned around
ColMinFlipped(r, c, mn, im) ==
  IF r >= dim THEN <<mn, im>>
  ELSE IF mn \prec Cost(r, c) THEN ColMinFlipped(r + 1, c, Cost(r, c), r)
  ELSE ColMinFlipped(r + 1, c, mn, im)

RECURSIVE ColMin(_, _, _, _)
\* lines 124-129: rows r..dim-1 of column c, running minimum mn at row im
ColMin(r, c, mn, im) ==
  IF r >= dim THEN <<mn, im>>
  ELSE IF Cost(r, c) \prec mn THEN ColMin(r + 1, c, Cost(r, c), r)
  ELSE ColMin(r + 1, c, mn, im)

\* Released without the write: column c keeps the owner it had
ReleasedKept(cs, c) == cs
\* lines 139 and 142: column c is left without an owner
Released(cs, c) == TStore(cs, c, 0 - 1)

\* one iteration of the loop of line 119 (or its exit)
ColumnReduction ==
  /\ pc = "colred"
  /\ IF j >= 0
     THEN LET m == ColMin(1, j, FZero, 0)   \* line 122 resets min to 0; imin = 0
              mn == m[1]
              im == m[2]
              v1 == TStore(v, j, mn)
              cnt == matches[im] + 1
          IN /\ min' = mn
             /\ imin' = im
             /\ v' = v1
             /\ matches' = [matches EXCEPT ![im] = cnt]
             /\ IF cnt = 1
                THEN /\ rowsol' = TStore(rowsol, im, j)
                     /\ colsol' = TStore(colsol, j, im)
                     /\ j1' = j1
                ELSE IF v1[j] \prec v1[rowsol[im]]
                THEN /\ j1' = rowsol[im]
                     /\ rowsol' = TStore(rowsol, im, j)
                     /\ colsol' = Released(TStore(colsol, j, im), rowsol[im])
                ELSE /\ colsol' = Released(colsol, j)
                     /\ UNCHANGED <<rowsol, j1>>
             /\ j' = j - 1
             /\ UNCHANGED <<pc, i>>
     ELSE /\ pc' = "transfer"
          /\ i' = 0
          /\ UNCHANGED <<min, imin, v, matches, rowsol, colsol, j1, j>>
  /\ UNCHANGED <<h, ref, dim, costMatrix, BIG, epsilon, u, free, collist, d, pred,
                 numfree, prvnumfree, loopcnt, k, f, freerow, i0, j2, umin, usubmin,
                 low, up, last, endofpath, unassignedfound, lapcost, assignments>>

----------------------------------------------------------------------------
\* REDUCTION TRANSFER, lines 146-163

RECURSIVE TransferMin(_, _, _, _)
\* lines 154-160: columns c..dim-1 of row r other than its column jr
TransferMin(c, r, jr, mn) ==
  IF c >= dim THEN mn
  ELSE IF c # jr /\ (Cost(r, c) \ominus v[c]) \prec (mn \oplus epsilon)
  THEN TransferMin(c + 1, r, jr, Cost(r, c) \ominus v[c])
  ELSE TransferMin(c + 1, r, jr, mn)

\* one iteration of the loop of line 146 (or its exit)
ReductionTransfer ==
  /\ pc = "transfer"
  /\ IF i < dim
     THEN /\ IF matches[i] = 0
             THEN /\ free' = Store(free, numfree, i)
                  /\ numfree' = numfree + 1
                  /\ UNCHANGED <<j1, min, v>>
             ELSE IF matches[i] = 1
             THEN LET mn == TransferMin(0, i, rowsol[i], BIG)
                  IN /\ j1' = rowsol[i]
                     /\ min' = mn
                     /\ v' = TStore(v, rowsol[i], v[rowsol[i]] \ominus mn)
                     /\ UNCHANGED <<free, numfree>>
             ELSE UNCHANGED <<free, numfree, j1, min, v>>
          /\ i' = i + 1
          /\ UNCHANGED <<pc, loopcnt>>
     ELSE /\ pc' = "arr"
          /\ loopcnt' = 0
          /\ UNCHANGED <<free, numfree, j1, min, v, i>>
  /\ UNCHANGED <<h, ref, j, dim, costMatrix, BIG, epsilon, colsol, rowsol, u, collist, matches,
                 d, pred, prvnumfree, k, f, freerow, i0, j2, imin, umin, usubmin,
                 low, up, last, endofpath, unassignedfound, lapcost, assignments>>

----------------------------------------------------------------------------
\* AUGMENTING ROW REDUCTION, lines 167-230

\* lines 169-176: head of one pass of the do-loop
ArrPass ==
  /\ pc = "arr"
  /\ loopcnt' = loopcnt + 1
  /\ k' = 0
  /\ prvnumfree' = numfree
  /\ numfree' = 0
  /\ pc' = "arrscan"
  /\ UNCHANGED <<h, ref, dim, costMatrix, BIG, epsilon, colsol, rowsol, u, v, free, collist,
                 matches, d, pred, i, j, f, freerow, i0, j1, j2, imin, umin, usubmin, min,
                 low, up, last, endofpath, unassignedfound, lapcost, assignments>>

RECURSIVE RowScan(_, _, _, _, _, _)
\* lines 185-198: columns c..dim-1 of row r; running umin um at column c1,
\* running usubmin us at column c2
RowScan(c, r, um, us, c1, c2) ==
  IF c >= dim THEN <<um, us, c1, c2>>
  ELSE LET hh == Cost(r, c) \ominus v[c]
       IN IF hh \prec us
          THEN IF hh \succeq um
               THEN RowScan(c + 1, r, um, hh, c1, c)
               ELSE RowScan(c + 1, r, hh, um, c, c1)
          ELSE RowScan(c + 1, r, um, us, c1, c2)

\* lines 177-198: the while test, and for the next free row the search of the
\* minimum and second minimum reduced cost; line 230 when the list is exhausted
ArrScan ==
  /\ pc = "arrscan"
  /\ IF k < prvnumfree
     THEN LET r == Load(free, k)
              s == RowScan(1, r, Cost(r, 0) \ominus FLoad(v, 0), BIG, 0, j2)
          IN /\ i' = r
             /\ k' = k + 1
             /\ umin' = s[1]
             /\ usubmin' = s[2]
             /\ j1' = s[3]
             /\ j2' = s[4]
             /\ pc' = "arrassign"
             /\ UNCHANGED f
     ELSE /\ IF loopcnt < 2
             THEN pc' = "arr" /\ f' = f
             ELSE pc' = "augment" /\ f' = 0
          /\ UNCHANGED <<i, k, umin, usubmin, j1, j2>>
  /\ UNCHANGED <<h, ref, dim, costMatrix, BIG, epsilon, colsol, rowsol, u, v, free, collist,
                 matches, d, pred, numfree, prvnumfree, loopcnt, j, freerow, i0, imin, min,
                 low, up, last, endofpath, unassignedfound, lapcost, assignments>>

\* line 204: the price of the minimum column, lowered until the reduced cost
\* of row i there exceeds the subminimum by epsilon
LoweredPrice == v[j1] \ominus ((usubmin \oplus epsilon) \ominus umin)

\* StrictlyBetter with `<=` for `<` on line 219
StrictlyBetterOrEqual == umin \preceq usubmin
\* line 219: the minimum of the scanned row is strictly below its subminimum
StrictlyBetter == umin \prec usubmin

\* lines 200-228: price change or column swap, (re-)assignment of row i, and
\* the re-queueing of the displaced row
ArrAssign ==
  /\ pc = "arrassign"
  /\ LET lower == umin \prec (usubmin \oplus epsilon)
         swap == ~lower /\ colsol[j1] > 0 - 1
         c1 == IF swap THEN j2 ELSE j1
         r0 == IF swap THEN colsol[j2] ELSE colsol[j1]
     IN /\ v' = IF lower
                THEN TStore(v, j1, LoweredPrice)
                ELSE v
        /\ j1' = c1
        /\ i0' = r0
        /\ rowsol' = TStore(rowsol, i, c1)
        /\ colsol' = TStore(colsol, c1, i)
        /\ IF r0 > 0 - 1
           THEN IF StrictlyBetter
                THEN /\ k' = k - 1
                     /\ free' = Store(free, k - 1, r0)
                     /\ UNCHANGED numfree
                ELSE /\ free' = Store(free, numfree, r0)
                     /\ numfree' = numfree + 1
                     /\ UNCHANGED k
           ELSE UNCHANGED <<k, free, numfree>>
  /\ pc' = "arrscan"
  /\ UNCHANGED <<h, ref, dim, costMatrix, BIG, epsilon, u, collist, matches, d, pred,
                 prvnumfree, loopcnt, i, j, f, freerow, j2, imin, umin, usubmin, min,
                 low, up, last, endofpath, unassignedfound, lapcost, assignments>>

----------------------------------------------------------------------------
\* AUGMENT SOLUTION, lines 233-326

\* lines 233-248: the test of the for-loop and, for the next free row, the
\* initialisation of the search.  The loop of line 238 starts at j = dim, one
\* past the last column: costMatrix[freerow][dim] and v[dim] are read, and
\* d, pred and collist get an element of index dim.
Augment ==
  /\ pc = "augment"
  /\ IF f < numfree
     THEN LET r == Load(free, f)
          IN /\ freerow' = r
             /\ d' = [c \in 0..dim |-> Cost(r, c) \ominus FLoad(v, c)]
             /\ pred' = [c \in 0..dim |-> r]
             /\ collist' = [c \in 0..dim |-> c]
             /\ low' = 0
             /\ up' = 0
             /\ unassignedfound' = FALSE
             /\ pc' = "dijkstra"
     ELSE /\ pc' = "final"
          /\ UNCHANGED <<freerow, d, pred, collist, low, up, unassignedfound>>
  /\ UNCHANGED <<h, ref, dim, costMatrix, BIG, epsilon, colsol, rowsol, u, v, free, matches,
                 numfree, prvnumfree, loopcnt, i, j, k, f, i0, j1, j2, imin, umin, usubmin,
                 min, last, endofpath, lapcost, assignments>>

\* IsUnassigned with `<= 0` for `< 0`: a column owned by row 0 counts as free
IsUnassignedLe(c) == Load(colsol, c) # NaN /\ Load(colsol, c) <= 0
\* the test `colsol[c] < 0` of lines 273 and 295 (false for an undefined element)
IsUnassigned(c) == Load(colsol, c) # NaN /\ Load(colsol, c) < 0

\* lines 250-256: head of one iteration of the do-loop.  When no column is
\* left to scan at the current minimum, the search of a new minimum starts
\* with the first column not yet ready.
DijkstraHead ==
  /\ pc = "dijkstra"
  /\ IF up = low
     THEN /\ last' = low - 1
          /\ min' = FLoad(d, Load(collist, up))
          /\ up' = up + 1
          /\ k' = up + 1
          /\ pc' = "scan"
     ELSE /\ pc' = "pop"
          /\ UNCHANGED <<last, min, up, k>>
  /\ UNCHANGED <<ref, dim, costMatrix, BIG, epsilon, colsol, rowsol, u, v, free, collist,
                 matches, d, pred, numfree, prvnumfree, loopcnt, i, j, f, freerow, i0, j1, j2,
                 imin, umin, usubmin, h, low, endofpath, unassignedfound, lapcost,
                 assignments>>

\* lines 257-269: one iteration of the loop that collects the columns at the
\* new minimum at positions low..up-1 of collist (or its exit)
ScanStep ==
  /\ pc = "scan"
  /\ IF k < dim
     THEN LET c == Load(collist, k)
              hh == FLoad(d, c)
              up0 == IF hh \prec min THEN low ELSE up
          IN /\ j' = c
             /\ h' = hh
             /\ IF hh \preceq min
                THEN /\ min' = hh
                     /\ collist' = Store(Store(collist, k, Load(collist, up0)), up0, c)
                     /\ up' = up0 + 1
                ELSE UNCHANGED <<min, collist, up>>
             /\ k' = k + 1
             /\ pc' = pc
     ELSE /\ k' = low
          /\ pc' = "check"
          /\ UNCHANGED <<j, h, min, collist, up>>
  /\ UNCHANGED <<ref, dim, costMatrix, BIG, epsilon, colsol, rowsol, u, v, free,
                 matches, d, pred, numfree, prvnumfree, loopcnt, i, f, freerow, i0, j1, j2,
                 imin, umin, usubmin, low, last, endofpath, unassignedfound, lapcost,
                 assignments>>

\* lines 272-278: one iteration of the loop that looks for an unassigned
\* column among the columns at the minimum (or its exit)
CheckStep ==
  /\ pc = "check"
  /\ IF k < up
     THEN IF IsUnassigned(Load(collist, k))
          THEN /\ endofpath' = Load(collist, k)
               /\ unassignedfound' = TRUE
               /\ pc' = "price"
               /\ k' = k
          ELSE /\ k' = k + 1
               /\ UNCHANGED <<endofpath, unassignedfound, pc>>
     ELSE /\ pc' = "pop"
          /\ UNCHANGED <<endofpath, unassignedfound, k>>
  /\ UNCHANGED <<ref, dim, costMatrix, BIG, epsilon, colsol, rowsol, u, v, free, collist,
                 matches, d, pred, numfree, prvnumfree, loopcnt, i, j, f, freerow, i0, j1, j2,
                 imin, umin, usubmin, min, h, low, up, last, lapcost, assignments>>

\* lines 281-288: the next column to scan from and the row that owns it.
\* costMatrix[i] of an undefined or negative i is undefined, and indexing it
\* throws a TypeError (line 286).
Pop ==
  /\ pc = "pop"
  /\ LET c == Load(collist, low)
         r == Load(colsol, c)
     IN /\ j1' = c
        /\ low' = low + 1
        /\ i' = r
        /\ IF r \notin DOMAIN costMatrix
           THEN pc' = "thrown" /\ UNCHANGED <<h, k>>
           ELSE /\ h' = (Cost(r, c) \ominus FLoad(v, c)) \ominus min
                /\ k' = up
                /\ pc' = "relax"
  /\ UNCHANGED <<ref, dim, costMatrix, BIG, epsilon, colsol, rowsol, u, v, free, collist,
                 matches, d, pred, numfree, prvnumfree, loopcnt, j, f, freerow, i0, j2,
                 imin, umin, usubmin, min, up, last, endofpath, unassignedfound, lapcost,
                 assignments>>

\* lines 288-310: one iteration of the loop that updates the distances of the
\* columns not yet at the minimum via row i (or its exit, back to line 250)
RelaxStep ==
  /\ pc = "relax"
  /\ IF k < dim
     THEN LET c == Load(collist, k)
              v2 == (Cost(i, c) \ominus FLoad(v, c)) \ominus h
          IN /\ j' = c
             /\ IF v2 \prec FLoad(d, c)
                THEN /\ pred' = Store(pred, c, i)
                     /\ IF v2 \doteq min
                        THEN IF IsUnassigned(c)
                             THEN /\ endofpath' = c
                                  /\ unassignedfound' = TRUE
                                  /\ pc' = "price"
                                  /\ UNCHANGED <<collist, up, d, k>>
                             ELSE /\ collist' = Store(Store(collist, k, Load(collist, up)), up, c)
                                  /\ up' = up + 1
                                  /\ d' = Store(d, c, v2)
                                  /\ k' = k + 1
                                  /\ UNCHANGED <<endofpath, unassignedfound, pc>>
                        ELSE /\ d' = Store(d, c, v2)
                             /\ k' = k + 1
                             /\ UNCHANGED <<collist, up, endofpath, unassignedfound, pc>>
                ELSE /\ k' = k + 1
                     /\ UNCHANGED <<pred, collist, up, d, endofpath, unassignedfound, pc>>
     ELSE /\ pc' = "dijkstra"
          /\ UNCHANGED <<j, pred, collist, up, d, endofpath, unassignedfound, k>>
  /\ UNCHANGED <<ref, dim, costMatrix, BIG, epsilon, colsol, rowsol, u, v, free,
                 matches, numfree, prvnumfree, loopcnt, i, f, freerow, i0, j1, j2,
                 imin, umin, usubmin, min, h, low, last, lapcost, assignments>>

RECURSIVE PriceLoop(_, _)
\* lines 313-316: positions x, x-1, ..., 0 of the column list
PriceLoop(x, vv) ==
  IF x < 0 THEN vv
  ELSE PriceLoop(x - 1, TStore(vv, collist[x], (vv[collist[x]] \oplus d[collist[x]]) \ominus min))

\* lines 312-316: update column prices
PriceUpdate ==
  /\ pc = "price"
  /\ v' = PriceLoop(last, v)
  /\ pc' = "flip"
  /\ UNCHANGED <<h, ref, dim, costMatrix, BIG, epsilon, colsol, rowsol, u, free, collist,
                 matches, d, pred, numfree, prvnumfree, loopcnt, i, j, k, f, freerow, i0, j1,
                 j2, imin, umin, usubmin, min, low, up, last, endofpath, unassignedfound,
                 lapcost, assignments>>

\* lines 319-325: one iteration of the loop that resets the assignments along
\* the alternating path; line 233's f++ when the path is back at freerow
Flip ==
  /\ pc = "flip"
  /\ LET r == pred[endofpath]
     IN /\ i' = r
        /\ colsol' = TStore(colsol, endofpath, r)
        /\ j1' = endofpath
        /\ endofpath' = rowsol[r]
        /\ rowsol' = TStore(rowsol, r, endofpath)
        /\ IF r # freerow
           THEN UNCHANGED <<pc, f>>
           ELSE pc' = "augment" /\ f' = f + 1
  /\ UNCHANGED <<h, ref, dim, costMatrix, BIG, epsilon, u, v, free, collist, matches, d, pred,
                 numfree, prvnumfree, loopcnt, j, k, freerow, i0, j2, imin, umin, usubmin,
                 min, low, up, last, unassignedfound, lapcost, assignments>>

----------------------------------------------------------------------------
\* lines 328-342: the cost of the assignment, the row duals, the result

RECURSIVE CostLoopSkip(_, _)
\* CostLoop with `i > 0` for `i >= 0` on line 330: row 0 is left out
CostLoopSkip(r, acc) ==
  IF r <= 0 THEN acc
  ELSE CostLoopSkip(r - 1, acc \oplus Cost(r, rowsol[r]))

RECURSIVE CostLoop(_, _)
\* lines 330-334, the accumulation of lapcost over rows r, r-1, ..., 0
CostLoop(r, acc) ==
  IF r < 0 THEN acc
  ELSE CostLoop(r - 1, acc \oplus Cost(r, rowsol[r]))

Finalize ==
  /\ pc = "final"
  /\ u' = [r \in 0..(dim - 1) |-> Cost(r, rowsol[r]) \ominus v[rowsol[r]]]
  /\ lapcost' = CostLoop(dim - 1, FZero)
  /\ pc' = "done"
  /\ UNCHANGED <<h, ref, dim, costMatrix, BIG, epsilon, colsol, rowsol, v, free, collist,
                 matches, d, pred, numfree, prvnumfree, loopcnt, i, j, k, f, freerow, i0, j1,
                 j2, imin, umin, usubmin, min, low, up, last, endofpath, unassignedfound,
                 assignments>>

----------------------------------------------------------------------------
\* score-assign.ts: the labels and the Map built from lap's solution

\* getScoreAndMakeAssignments calls lap(n, costs) with n = drivers.length
\* (line 69) and a costs matrix with one row per address (lines 30-31, 49-50)
drivers == [r \in 0..(dim - 1) |-> <<"driver", r>>]
addrs == [c \in 0..(Cardinality(DOMAIN costMatrix) - 1) |-> <<"addr", c>>]

\* lines 37-42 and 70: daMatrix[row][column] = { driver: name, addr: address }
\* for every driver and address
daMatrix == [r \in DOMAIN drivers |-> [c \in DOMAIN addrs |-> [driver |-> drivers[r], addr |-> addrs[c]]]]

\* lines 105-106: mapping[r] of a missing row r is undefined, and so is
\* driverAddr for a missing cell; indexing either throws a TypeError
MapThrows(rowIndices, colIndices, mapping) ==
  \E x \in DOMAIN rowIndices :
     \/ colIndices[x] \notin DOMAIN mapping
     \/ rowIndices[x] \notin DOMAIN mapping[colIndices[x]]

RECURSIVE MapLoop(_, _, _, _, _)
\* lines 103-107: entries x..length-1 of rowIndices; m is the Map so far
\* (Map.set replaces the value of a key already present)
MapLoop(x, rowIndices, colIndices, mapping, m) ==
  IF x >= Cardinality(DOMAIN rowIndices) THEN m
  ELSE LET driverAddr == mapping[colIndices[x]][rowIndices[x]]
       IN MapLoop(x + 1, rowIndices, colIndices, mapping, Store(m, driverAddr.driver, driverAddr.addr))

mapDriversAndAddrs(rowIndices, colIndices, mapping) == MapLoop(0, rowIndices, colIndices, mapping, << >>)

\* line 83 (totalSuitabilityScore, lines 131-134) reads rewards[i] for every
\* element i of solution.col and indexes it: a row the rewards matrix, which
\* has the rows of costs, does not have throws
TotalThrows == \E x \in DOMAIN colsol : colsol[x] \notin DOMAIN costMatrix

\* lines 83-87 of getScoreAndMakeAssignments: the solution of lap is mapped
\* back to the labels
Report ==
  /\ pc = "done"
  /\ IF TotalThrows \/ MapThrows(rowsol, colsol, daMatrix)
     THEN pc' = "mapthrown" /\ UNCHANGED assignments
     ELSE /\ assignments' = mapDriversAndAddrs(rowsol, colsol, daMatrix)
          /\ pc' = "reported"
  /\ UNCHANGED <<h, ref, dim, costMatrix, BIG, epsilon, colsol, rowsol, u, v, free, collist,
                 matches, d, pred, numfree, prvnumfree, loopcnt, i, j, k, f, freerow, i0, j1,
                 j2, imin, umin, usubmin, min, low, up, last, endofpath, unassignedfound,
                 lapcost>>

----------------------------------------------------------------------------
\* A caller that solves a matrix and then the same matrix with a constant
\* added to one row: the second call of lap (lines 86-89) starts afresh.

ShiftRow(m, r, c) == [x \in DOMAIN m |-> IF x = r THEN [y \in DOMAIN m[x] |-> m[x][y] + c] ELSE m[x]]

Shift ==
  /\ pc = "done"
  /\ ValidInput
  /\ ~ref.called
  /\ \E r \in 0..(dim - 1) : \E c \in {1, 0 - 1} :
       /\ ref' = [called |-> TRUE, cost |-> lapcost, row |-> rowsol, r |-> r, c |-> c]
       /\ costMatrix' = ShiftRow(costMatrix, r, c)
  /\ dim' = dim
  /\ pc' = "start"
  /\ BIG' = FNaN /\ epsilon' = FNaN
  /\ colsol' = << >> /\ rowsol' = << >> /\ u' = << >> /\ v' = << >>
  /\ free' = << >> /\ collist' = << >> /\ matches' = << >> /\ d' = << >> /\ pred' = << >>
  /\ numfree' = 0 /\ prvnumfree' = NaN /\ loopcnt' = 0
  /\ i' = NaN /\ j' = NaN /\ k' = NaN /\ f' = NaN /\ freerow' = NaN
  /\ i0' = NaN /\ j1' = NaN /\ j2' = 0 /\ imin' = NaN
  /\ umin' = FNaN /\ usubmin' = FNaN /\ min' = FNaN /\ h' = FNaN
  /\ low' = NaN /\ up' = NaN /\ last' = 0 /\ endofpath' = NaN /\ unassignedfound' = FALSE
  /\ lapcost' = FZero
  /\ assignments' = << >>

Next == Start \/ ColumnReduction \/ ReductionTransfer \/ ArrPass \/ ArrScan \/ ArrAssign
  \/ Augment \/ DijkstraHead \/ ScanStep \/ CheckStep \/ Pop \/ RelaxStep
  \/ PriceUpdate \/ Flip \/ Finalize \/ Report

Spec == Init /\ [][Next]_vars

\* lap is synchronous, single-threaded code: it always takes its next step
LiveSpec == Spec /\ WF_vars(Next)

NextShift == Next \/ Shift

SpecShift == Init /\ [][NextShift]_vars

----------------------------------------------------------------------------
\* Properties.

\* lap has returned its result object
Returned == pc \in {"done", "reported"}

Rows == 0..(dim - 1)

\* C1: for a valid matrix the returned row and col arrays are mutually
\* inverse permutations of 0..n-1.
BijectionProperty ==
  (Returned /\ ValidInput) =>
     /\ \A r \in Rows : rowsol[r] \in Rows /\ colsol[rowsol[r]] = r
     /\ \A c \in Rows : colsol[c] \in Rows /\ rowsol[colsol[c]] = c

\* a 3 x 3 (or larger) solve that needed an augmenting path and whose
\* assignment is not the identity
BijectionWitness ==
  /\ pc = "done" /\ ValidInput /\ dim >= 3 /\ f >= 1
  /\ \E r \in Rows : rowsol[r] # r
  /\ \A r \in Rows : colsol[rowsol[r]] = r

\* the permutations of 0..n-1
Perms(n) == {p \in [0..(n - 1) -> 0..(n - 1)] : \A x, y \in 0..(n - 1) : p[x] = p[y] => x = y}

RECURSIVE AssignedCost(_, _)
\* the cost of rows 0..r under the assignment p
AssignedCost(r, p) == IF r < 0 THEN 0 ELSE costMatrix[r][p[r]] + AssignedCost(r - 1, p)

\* C2: the returned cost is the minimum over all permutations of the sum of
\* the assigned costs.
OptimalCost ==
  (pc = "done" /\ ValidInput) =>
     \A p \in Perms(dim) : lapcost \preceq FromInt(AssignedCost(dim - 1, p))

\* C3: on the documented example lap returns row = [0,2,1], col = [0,2,1],
\* cost = 4.
ExampleScenario ==
  (Returned /\ dim = 3 /\ costMatrix = ExampleMatrix) =>
     /\ rowsol = Arr(<<0, 2, 1>>)
     /\ colsol = Arr(<<0, 2, 1>>)
     /\ lapcost = FromInt(4)

ExampleWitness == pc = "done" /\ dim = 3 /\ costMatrix = ExampleMatrix /\ lapcost = FromInt(4)

\* C4: the returned duals satisfy u[i] + v[j] <= costMatrix[i][j] + epsilon
\* for every row i and column j (both sides computed in binary64).
DualFeasible ==
  (pc = "done" /\ ValidInput) =>
     \A r \in Rows : \A c \in Rows : (u[r] \oplus v[c]) \preceq (Cost(r, c) \oplus epsilon)

\* C5: the returned cost is the sum over the rows of the cost of the column
\* the returned row array assigns to them.
CostConsistency ==
  (Returned /\ ValidInput) => lapcost = FromInt(AssignedCost(dim - 1, rowsol))

\* a solve whose assignment has a non-zero cost in row 0 and in another row
CostWitness ==
  /\ pc = "done" /\ ValidInput /\ dim >= 2
  /\ costMatrix[0][rowsol[0]] # 0
  /\ \E r \in Rows : r # 0 /\ costMatrix[r][rowsol[r]] # 0
  /\ lapcost = FromInt(AssignedCost(dim - 1, rowsol))

\* C6: for every valid matrix, negative-sum and zero-sum ones included, lap
\* terminates: the scan loop of both passes of the row reduction, every
\* shortest path search and every path flip come to an end and lap returns.
Termination == (pc = "start" /\ ValidInput) ~> (pc = "done")

\* C7: a call with n <= 0 or with a matrix that is not n x n is rejected
\* before any phase runs and returns no result.
RejectsInvalidDimension ==
  (dim <= 0 \/ ~IsSquare(dim, costMatrix)) => pc \in {"start", "thrown"}

\* C8: a call with a NaN or infinite entry is rejected before any phase runs;
\* lap never enters its loops and never returns a result for it.
RejectsNonFiniteCost ==
  (\E r \in DOMAIN costMatrix : \E c \in DOMAIN costMatrix[r] : costMatrix[r][c] = NaN)
     => pc \in {"start", "thrown"}

\* C9: adding c to every entry of row r adds c to the returned cost and
\* leaves the column assigned to row r unchanged.
RowShiftInvariance ==
  (pc = "done" /\ ref.called) =>
     /\ lapcost = ref.cost \oplus FromInt(ref.c)
     /\ rowsol[ref.r] = ref.row[ref.r]

\* C10: every (driver, address) entry of the Map returned by
\* mapDriversAndAddrs is a pair matched by the solver: driver = drivers[i]
\* and address = addrs[row[i]] for some row i.
ReportedPairsMatched ==
  (pc = "reported" /\ ValidInput /\ BijectionProperty) =>
     \A key \in DOMAIN assignments :
        \E r \in Rows : key = drivers[r] /\ assignments[key] = addrs[rowsol[r]]

\* the least element of a non-empty finite set of numbers
Least(S) == CHOOSE x \in S : \A y \in S : x \preceq y

\* C11: after column reduction every v[c] is the minimum of column c over all
\* rows, row 0 included, and the row imin credited for the column just
\* reduced attains that minimum.
ColumnDualIsMinimum ==
  (pc = "colred" /\ ValidInput) =>
     /\ \A c \in (j + 1)..(dim - 1) : v[c] = Least({Cost(r, c) : r \in Rows})
     /\ j < dim - 1 => Cost(imin, j + 1) = Least({Cost(r, j + 1) : r \in Rows})

\* the reduced costs of row r: costMatrix[r][c] - v[c] for every column c
ReducedCosts(r) == [c \in Rows |-> Cost(r, c) \ominus v[c]]

\* C12: after the column scan of a free row i (n >= 2), umin is the minimum
\* and usubmin the second-smallest reduced cost of row i, j1 attains umin and
\* j2 attains usubmin.
RowScanFindsMinima ==
  (pc = "arrassign" /\ ValidInput /\ dim >= 2) =>
     /\ i \in Rows
     /\ j1 \in Rows
     /\ j2 \in Rows
     /\ umin = Least({ReducedCosts(i)[c] : c \in Rows})
     /\ ReducedCosts(i)[j1] = umin
     /\ usubmin = Least({ReducedCosts(i)[c] : c \in Rows \ {j1}})
     /\ ReducedCosts(i)[j2] = usubmin

\* the step of lines 200-228 displaced the row that owned the chosen column
Displaces == pc = "arrassign" /\ ValidInput /\ i0' # NaN /\ i0' > 0 - 1

\* lines 220-222: the displaced row is written at the scan position, which
\* moves back onto it
Requeued ==
  /\ k' = k - 1 /\ k' >= 0 /\ k' < prvnumfree
  /\ free'[k'] = i0'
  /\ numfree' = numfree
  /\ pc' = "arrscan"

\* lines 224-226: the displaced row is appended to the list of the next pass,
\* in a slot the scan has already passed
Deferred ==
  /\ k' = k
  /\ numfree' = numfree + 1 /\ numfree < k
  /\ free'[numfree] = i0'

\* line 178: the scan takes the row at the scan position
ScansAtPosition == (pc = "arrscan" /\ pc' = "arrassign" /\ ValidInput) => i' = free[k]

\* C13 as stated: a row displaced with umin not strictly below usubmin is
\* re-queued at the scan position and scanned next in the same pass, a row
\* displaced with umin strictly below usubmin is deferred to the next pass.
DisplacedRowRuleAsStated ==
  [][/\ Displaces => IF umin \prec usubmin THEN Deferred ELSE Requeued
     /\ ScansAtPosition]_vars

\* C13 amended: a row displaced with umin strictly below usubmin is re-queued
\* at the scan position and scanned next in the same pass; a row displaced
\* with umin not strictly below usubmin is deferred to the next pass.
DisplacedRowRule ==
  [][/\ Displaces => IF umin \prec usubmin THEN Requeued ELSE Deferred
     /\ ScansAtPosition]_vars

\* a scan, not the first of its pass, of the row the previous assignment
\* displaced and re-queued
DisplacedRowWitness ==
  /\ pc = "arrassign" /\ ValidInput /\ k >= 2
  /\ i0 # NaN /\ i0 > 0 - 1 /\ i = i0

\* the columns without an owner and the rows that own no column
UnassignedColumns == {c \in Rows : colsol[c] < 0}
UnownedRows == {r \in Rows : \A c \in Rows : colsol[c] # r}

\* the points between the steps of lap at which the assignment is partial
\* and consistent: during the building of the free list, between two rows of
\* the augmenting row reduction, and between two augmentations
AtRest == pc \in {"transfer", "arr", "arrscan", "augment"}

\* the slots of the free list that hold the rows still to be processed
PendingSlots ==
  IF pc = "arrscan" THEN (0..(numfree - 1)) \cup (k..(prvnumfree - 1))
  ELSE IF pc = "augment" THEN f..(numfree - 1)
  ELSE 0..(numfree - 1)

\* how many rows are still to be processed
PendingCount ==
  IF pc = "arrscan" THEN numfree + (prvnumfree - k)
  ELSE IF pc = "augment" THEN numfree - f
  ELSE IF pc = "transfer" THEN numfree + Cardinality({r \in i..(dim - 1) : matches[r] = 0})
  ELSE numfree

\* the rows still to be processed
PendingRows ==
  {free[x] : x \in PendingSlots}
    \cup (IF pc = "transfer" THEN {r \in i..(dim - 1) : matches[r] = 0} ELSE {})

\* C14: after column reduction, after each row of the augmenting row
\* reduction and before and after each augmentation, the owned columns have
\* distinct owners with rowsol[colsol[c]] = c, the rows that own no column are
\* exactly the pending free rows (each once), there are as many unassigned
\* columns as pending rows, and a shortest path search has an unassigned
\* column to find.
PartialAssignment ==
  /\ (AtRest /\ ValidInput) =>
        /\ \A c \in Rows : colsol[c] >= 0 => (colsol[c] \in Rows /\ rowsol[colsol[c]] = c)
        /\ \A c1, c2 \in Rows : (colsol[c1] >= 0 /\ colsol[c1] = colsol[c2]) => c1 = c2
        /\ PendingSlots \subseteq DOMAIN free
        /\ PendingRows = UnownedRows
        /\ Cardinality(PendingRows) = PendingCount
        /\ Cardinality(UnassignedColumns) = PendingCount
  /\ (pc \in {"dijkstra", "scan", "check", "pop", "relax"} /\ ValidInput) =>
        UnassignedColumns # {}

\* after the augmentation of a 3 x 3 (or larger) solve whose row reduction
\* left a free row: no row is pending and no column is unassigned any more
PartialAssignmentWitness ==
  /\ pc = "augment" /\ ValidInput /\ dim >= 3
  /\ f = 1 /\ numfree = 1
  /\ UnassignedColumns = {} /\ UnownedRows = {}

\* the plain arrays of lap have no element outside 0..n-1
ArraysInRange ==
  /\ DOMAIN d \subseteq Rows
  /\ DOMAIN pred \subseteq Rows
  /\ DOMAIN collist \subseteq Rows
  /\ DOMAIN free \subseteq Rows

\* the positions lap is about to use as indices are in 0..n-1
PositionsInRange ==
  /\ pc = "arrscan" => (numfree <= k /\ k <= prvnumfree /\ prvnumfree <= dim)
  /\ pc = "arrassign" => (i \in Rows /\ j1 \in Rows /\ j2 \in Rows /\ numfree < k /\ k >= 1)
  /\ (pc = "augment" /\ f < numfree) => (f \in DOMAIN free /\ free[f] \in Rows)
  /\ (pc = "dijkstra" /\ up = low) => up < dim
  /\ pc = "pop" => (low < dim /\ Load(collist, low) \in Rows /\ colsol[Load(collist, low)] \in Rows)
  /\ pc = "price" => last < dim
  /\ pc = "flip" => (endofpath \in Rows /\ Load(pred, endofpath) \in Rows)

\* C15: for a valid input every index lap uses on costMatrix rows, v, d,
\* pred, collist, free, matches, rowsol and colsol is in 0..n-1.
IndicesInRange ==
  ValidInput => (ArraysInRange /\ PositionsInRange)
====
